---- MODULE Spec2Model ----
(***************************************************************************)
(* RideWise client: the reservation page (src/src/pages/Reservation.tsx),  *)
(* the latest-reservation store (src/unnamed/part_000, the module imported *)
(* as "@/contexts/ReservationContext") and the map's station handoff       *)
(* (LeafletMap, second module held in src/src/pages/Contact.tsx).          *)
(*                                                                         *)
(* A JavaScript object is modelled as a record whose domain is the set of  *)
(* properties holding a defined value: a property that is undefined is a   *)
(* key outside DOMAIN.  null is the record Null.                           *)
(***************************************************************************)
EXTENDS Integers, Sequences, FiniteSets, TLC

VARIABLES
    \* ---- ReservationProvider (one per tab) and the durable slot ----
    latestReservation,   \* [Tabs -> snapshot or Null]   useState, part_000:31
    ctxValue,            \* [Tabs -> snapshot or Null]   what useReservation() readers see (useMemo)
    storage,             \* localStorage[STORAGE_KEY], shared by the tabs
    storeLog,            \* [Tabs -> the last store operation of the tab and how it ended]
    lastWrite,           \* the last setLatestReservation call of any tab
    \* ---- environment of the page ----
    user,                \* useAuth().user
    locationState,       \* useLocation().state
    server,              \* the backend's reservations and id counter
    \* ---- ReservationPage state (useState / useMemo) ----
    stations, stationsLoading, stationsError,
    date, timeSlot, stationId, predictedDemand,
    isSubmitting, submitError, receiptOpen, lastResponse,
    userReservations, loadingReservations,
    editDialogOpen, editingReservation, editDate, editTimeSlot,
    editStationId, editPredictedDemand,
    price, editPrice,
    \* ---- asynchronous flows in flight ----
    mountFetch,          \* the list fetch started by the [user] effect
    createFlow,          \* handleReserve
    editFlow,            \* handleEditReservation
    cancelFlows          \* handleCancelReservation, one record per slot

storeVars == <<latestReservation, ctxValue, storage, storeLog, lastWrite>>
envVars   == <<user, locationState, server>>
catalogVars == <<stations, stationsLoading, stationsError>>
formVars  == <<date, timeSlot, stationId, predictedDemand, price>>
submitVars == <<isSubmitting, submitError, receiptOpen, lastResponse>>
listVars  == <<userReservations, loadingReservations>>
editVars  == <<editDialogOpen, editingReservation, editDate, editTimeSlot,
               editStationId, editPredictedDemand, editPrice>>
flowVars  == <<mountFetch, createFlow, editFlow, cancelFlows>>
pageVars  == <<catalogVars, formVars, submitVars, listVars, editVars, flowVars>>
vars      == <<storeVars, envVars, pageVars>>

(***************************************************************************)
(* Bounds of the model.                                                    *)
(***************************************************************************)
MaxReservations == 1     \* reservations the backend ever creates
MaxCancels == 1          \* cancel flows in flight at once

(***************************************************************************)
(* Values.                                                                 *)
(***************************************************************************)
Null == [null |-> TRUE]

DemandLevel == {"High", "Medium", "Low"}
TimeSlot == {"Morning", "Afternoon", "Evening", "Night"}
TIME_SLOTS == <<"Morning", "Afternoon", "Evening", "Night">>

Tabs == {"t1", "t2"}
PageTab == "t1"          \* the tab whose ReservationPage is modelled

StationIds == {"s1", "s2"}
Today == "2026-01-01"

\* JavaScript truthiness of a string
Truthy(s) == s # ""

(***************************************************************************)
(* Pricing.                                                                *)
(***************************************************************************)
calculatePriceFlatNight(demand, slot) ==
    IF slot = "Night" THEN 300
    ELSE IF demand = "High" THEN 400 ELSE IF demand = "Medium" THEN 300 ELSE 200

calculatePrice(demand, slot) ==
    LET demandPrice == IF demand = "High" THEN 400
                       ELSE IF demand = "Medium" THEN 300 ELSE 200
        nightSurcharge == IF slot = "Night" THEN 100 ELSE 0
    IN  demandPrice + nightSurcharge

(***************************************************************************)
(* JSON text of the durable slot.  A text is kept as its opening brace,    *)
(* its members in order (key, JSON type, literal) and its closing brace;   *)
(* a number's literal is its decimal string.                               *)
(***************************************************************************)
SnapshotKeys == <<"reservation_id", "station", "date", "time_slot", "price",
                  "status", "predicted_demand", "station_id">>

NoItem == [kind |-> "none"]                         \* getItem(...) = null
EmptyText == [kind |-> "text", open |-> "", members |-> <<>>, close |-> ""]
TruncatedText == [kind |-> "text", open |-> "{",
                  members |-> <<<<"reservation_id", "string", "r1">>>>, close |-> ""]

NumberLiterals == 0..1000

JSONMember(obj, k) ==
    IF k = "price" THEN <<k, "number", ToString(obj[k])>>
    ELSE <<k, "string", obj[k]>>

JSONStringifyDropsStationId(obj) ==
    LET ks == SelectSeq(SnapshotKeys, LAMBDA k : k \in DOMAIN obj /\ k # "station_id")
    IN  [kind |-> "text", open |-> "{",
         members |-> [i \in 1..Len(ks) |-> JSONMember(obj, ks[i])],
         close |-> "}"]

\* JSON.stringify(r) of an object: the defined properties, in order
JSONStringify(obj) ==
    LET ks == SelectSeq(SnapshotKeys, LAMBDA k : k \in DOMAIN obj)
    IN  [kind |-> "text", open |-> "{",
         members |-> [i \in 1..Len(ks) |-> JSONMember(obj, ks[i])],
         close |-> "}"]

JSONValue(member) ==
    IF member[2] = "number"
    THEN CHOOSE n \in NumberLiterals : ToString(n) = member[3]
    ELSE member[3]

\* JSON.parse(raw): ok = FALSE stands for the SyntaxError it throws
JSONParse(text) ==
    IF text.open = "{" /\ text.close = "}"
    THEN LET ms == text.members
             keys == {ms[i][1] : i \in 1..Len(ms)}
             last(k) == CHOOSE i \in 1..Len(ms) :
                          /\ ms[i][1] = k
                          /\ \A j \in 1..Len(ms) : ms[j][1] = k => j <= i
         IN  [ok |-> TRUE, value |-> [k \in keys |-> JSONValue(ms[last(k)])]]
    ELSE [ok |-> FALSE]

\* if (raw): null and the empty string are falsy
RawTruthy(raw) == raw # NoItem /\ raw # EmptyText

(***************************************************************************)
(* ReservationProvider.                                                    *)
(***************************************************************************)
HydrateWithoutCatch(raw, readFails) ==
    IF readFails THEN [value |-> Null, threw |-> TRUE, raised |-> TRUE]
    ELSE IF ~RawTruthy(raw) THEN [value |-> Null, threw |-> FALSE, raised |-> FALSE]
    ELSE LET p == JSONParse(raw)
         IN  IF p.ok THEN [value |-> p.value, threw |-> FALSE, raised |-> FALSE]
             ELSE [value |-> Null, threw |-> TRUE, raised |-> TRUE]

\* The mount effect: try { raw = getItem; if (raw) setState(JSON.parse(raw)) } catch {}
\* value: the state after it; threw: getItem or JSON.parse threw; raised: it escaped
Hydrate(raw, readFails) ==
    IF readFails THEN [value |-> Null, threw |-> TRUE, raised |-> FALSE]
    ELSE IF ~RawTruthy(raw) THEN [value |-> Null, threw |-> FALSE, raised |-> FALSE]
    ELSE LET p == JSONParse(raw)
         IN  IF p.ok THEN [value |-> p.value, threw |-> FALSE, raised |-> FALSE]
             ELSE [value |-> Null, threw |-> TRUE, raised |-> FALSE]

UseMemoNoDeps(prevValue, prevDep, newDep) == prevValue

\* useMemo(() => ({ latestReservation, ... }), [latestReservation])
UseMemo(prevValue, prevDep, newDep) ==
    IF newDep # prevDep THEN newDep ELSE prevValue

StorageAfterSetKeepsOnNull(old, r, writeFails) ==
    IF writeFails \/ r = Null THEN old ELSE JSONStringify(r)

StorageAfterSetFirstWriteWins(old, r, writeFails) ==
    IF writeFails \/ (RawTruthy(old) /\ r # Null) THEN old
    ELSE IF r # Null THEN JSONStringify(r) ELSE NoItem

\* if (r) setItem(KEY, JSON.stringify(r)); else removeItem(KEY)   (inside try/catch)
StorageAfterSet(old, r, writeFails) ==
    IF writeFails THEN old
    ELSE IF r # Null THEN JSONStringify(r) ELSE NoItem

NoWrite == [tab |-> "none", val |-> Null, stored |-> FALSE]

StateAfterSetBlockedByFailure(old, r, writeFails) == IF writeFails THEN old ELSE r

\* setLatestReservationState(r), called before the storage is touched
StateAfterSet(old, r, writeFails) == r

\* setLatestReservation(r) called in tab t
setLatestReservation(t, r, writeFails) ==
    /\ latestReservation' = [latestReservation EXCEPT ![t] =
                                StateAfterSet(@, r, writeFails)]
    /\ ctxValue' = [ctxValue EXCEPT ![t] =
                       UseMemo(@, latestReservation[t],
                               StateAfterSet(latestReservation[t], r, writeFails))]
    /\ storage' = StorageAfterSet(storage, r, writeFails)
    /\ storeLog' = [storeLog EXCEPT ![t] =
                      [op |-> "set", arg |-> r, threw |-> writeFails, raised |-> FALSE]]
    /\ lastWrite' = [tab |-> t, val |-> r, stored |-> ~writeFails]

HydrateLog(raw, h, after) ==
    [op |-> "hydrate", arg |-> raw, threw |-> h.threw, raised |-> h.raised,
     after |-> after]

\* A (re)load of tab t: useState(null), then the mount effect
Startup(t, readFails) ==
    LET h == Hydrate(storage, readFails)
    IN  /\ latestReservation' = [latestReservation EXCEPT ![t] = h.value]
        /\ ctxValue' = [ctxValue EXCEPT ![t] = UseMemo(Null, Null, h.value)]
        /\ storeLog' = [storeLog EXCEPT ![t] = HydrateLog(storage, h, lastWrite)]
        /\ UNCHANGED <<storage, lastWrite>>

(***************************************************************************)
(* The backend (an external collaborator: only its callers are in src/).   *)
(***************************************************************************)
StationName(sid) == "Station " \o sid

Station(sid, demand) ==
    [station_id |-> sid, station_name |-> StationName(sid), demand_level |-> demand]

\* GET /api/stations payloads: the catalog at two moments
ServerCatalogs == { <<Station("s1", "High"), Station("s2", "Low")>>,
                    <<Station("s1", "Medium")>> }

ResId(n) == "r" \o ToString(n)

ServerStatuses == {"Confirmed", "Pending"}
\* The backend prices by the same rule, or disagrees with the client by a delta
ServerPriceDeltas == {0, 50}
ServerPrice(req, delta) == calculatePrice(req.predicted_demand, req.time_slot) + delta

NewReservation(id, req, p, st) ==
    [reservation_id |-> id, station_id |-> req.station_id,
     station |-> StationName(req.station_id), date |-> req.date,
     time_slot |-> req.time_slot, predicted_demand |-> req.predicted_demand,
     price |-> p, status |-> st]

\* POST /api/reserve success body: {reservation_id, station, date, time_slot, price, status}
ReserveResponseBody(r) ==
    [k \in {"reservation_id", "station", "date", "time_slot", "price", "status"} |-> r[k]]

ServerCreate(srv, r) ==
    [reservations |-> Append(srv.reservations, r), nextId |-> srv.nextId + 1]

ServerHas(srv, id) ==
    \E i \in 1..Len(srv.reservations) : srv.reservations[i].reservation_id = id

\* DELETE /api/reservations/<id>: the reservation leaves the user's list
ServerDelete(srv, id) ==
    [srv EXCEPT !.reservations = SelectSeq(@, LAMBDA r : r.reservation_id # id)]

\* PUT /api/reservations/<id>: date, slot and station replaced, price recomputed
ServerUpdate(srv, req) ==
    LET old == srv.reservations
        updated(r) == [r EXCEPT !.date = req.date, !.time_slot = req.time_slot,
                                !.station_id = req.station_id,
                                !.station = StationName(req.station_id),
                                !.price = calculatePrice(r.predicted_demand, req.time_slot)]
    IN  [srv EXCEPT !.reservations =
            [i \in 1..Len(old) |->
                IF old[i].reservation_id = req.reservation_id
                THEN updated(old[i]) ELSE old[i]]]

\* GET /api/reservations?user_email=...: {reservations: [...]}
ServerList(srv) == srv.reservations

(***************************************************************************)
(* LeafletMap: the handoff attached to the navigation.                     *)
(***************************************************************************)
\* navigate("/reservation", { state: { station_id, demand_level } })
MapHandleReserve(station) ==
    [station_id |-> station.station_id, demand_level |-> station.demand_level]

LocationStates ==
    {Null} \cup UNION { { MapHandleReserve(c[i]) : i \in 1..Len(c) } : c \in ServerCatalogs }

(***************************************************************************)
(* ReservationPage: helpers and effects.                                   *)
(***************************************************************************)
\* useAuth().user behind ProtectedRoute: a signed-in rider, with or without an email
Rider == [email |-> "rider@example.com"]
Anonymous == [email |-> ""]
Users == {Anonymous, Rider}

\* user?.email is truthy
HasEmail(u) == u # Null /\ Truthy(u.email)

\* stations.find((s) => s.station_id === id): the first match, Null for undefined
Find(sts, id) ==
    LET hits == {i \in 1..Len(sts) : sts[i].station_id = id}
    IN  IF hits = {} THEN Null
        ELSE sts[CHOOSE i \in hits : \A j \in hits : i <= j]

PrefillEveryRender(old, new) == TRUE

\* the prefill effect's dependency array [location.state]
PrefillDepsChanged(old, new) == old # new

\* Prefill effect body: seeds the station and the demand from the handoff
PrefillEffect(state, sid, pd) ==
    [stationId |-> IF state # Null /\ Truthy(state.station_id)
                   THEN state.station_id ELSE sid,
     predictedDemand |-> IF state # Null /\ Truthy(state.demand_level)
                         THEN state.demand_level ELSE pd]

StationEffectKeepsDemand(sts, sid, pd) == pd

StationEffectFirstStation(sts, sid, pd) ==
    IF Len(sts) > 0 THEN sts[1].demand_level ELSE pd

\* Station effect body: auto-fill the demand of the selected station
StationEffect(sts, sid, pd) ==
    LET selected == Find(sts, sid)
    IN  IF selected # Null THEN selected.demand_level ELSE pd

\* The form after a render: sidH, pdH are the values the handler left, stsNew and
\* locNew the catalog and the navigation state of the render; each effect runs
\* only when its dependencies differ from the previous render's.
Rendered(sidH, pdH, stsNew, locNew) ==
    LET pre == IF PrefillDepsChanged(locationState, locNew)
               THEN PrefillEffect(locNew, sidH, pdH)
               ELSE [stationId |-> sidH, predictedDemand |-> pdH]
        pd2 == IF pre.stationId # stationId \/ stsNew # stations
               THEN StationEffect(stsNew, pre.stationId, pre.predictedDemand)
               ELSE pre.predictedDemand
    IN  [stationId |-> pre.stationId, predictedDemand |-> pd2]

\* Edit-dialog effect, dependencies [editStationId, stations, editDialogOpen]
EditRendered(esidH, epdH, openH, stsNew) ==
    IF (esidH # editStationId \/ stsNew # stations \/ openH # editDialogOpen)
       /\ openH /\ Truthy(esidH) /\ Find(stsNew, esidH) # Null
    THEN Find(stsNew, esidH).demand_level
    ELSE epdH

\* A message held in a string-or-null state (submitError, stationsError)
Message(text) == [message |-> text]

ValidatesDateOnly(d, ts, sid) ==
    IF ~Truthy(d) THEN Message("Please select a date.") ELSE Null

ValidatesAllButDate(d, ts, sid) ==
    IF ~Truthy(ts) THEN Message("Please select a time slot.")
    ELSE IF ~Truthy(sid) THEN Message("Please select a pickup station.")
    ELSE Null

\* The three checks that open handleReserve and handleEditReservation
ValidationError(d, ts, sid) ==
    IF ~Truthy(d) THEN Message("Please select a date.")
    ELSE IF ~Truthy(ts) THEN Message("Please select a time slot.")
    ELSE IF ~Truthy(sid) THEN Message("Please select a pickup station.")
    ELSE Null

LatestKeepsClientPrice(confirmed, pd, sid) ==
    [k \in ({"reservation_id", "station", "date", "time_slot", "status"}
              \cap DOMAIN confirmed) \cup {"price", "predicted_demand", "station_id"} |->
        IF k = "predicted_demand" THEN pd
        ELSE IF k = "station_id" THEN sid
        ELSE IF k = "price" THEN calculatePrice(pd, confirmed.time_slot)
        ELSE confirmed[k]]

LatestOfCurrentForm(confirmed, pd, sid) ==
    [k \in ({"reservation_id", "station", "date", "time_slot", "price", "status"}
              \cap DOMAIN confirmed) \cup {"predicted_demand", "station_id"} |->
        IF k = "predicted_demand" THEN predictedDemand
        ELSE IF k = "station_id" THEN stationId
        ELSE confirmed[k]]

\* const latest: LatestReservation = { ...fields of confirmed, predicted_demand, station_id }
Latest(confirmed, pd, sid) ==
    [k \in ({"reservation_id", "station", "date", "time_slot", "price", "status"}
              \cap DOMAIN confirmed) \cup {"predicted_demand", "station_id"} |->
        IF k = "predicted_demand" THEN pd
        ELSE IF k = "station_id" THEN sid
        ELSE confirmed[k]]

IdleFlow(last) == [pc |-> "idle", req |-> Null, payload |-> <<>>, last |-> last]

ListOutcomes == {"ok", "httpError", "networkError"}
MutationOutcomes == {"ok", "errorWithMessage", "errorNoMessage", "networkError"}
PostOutcomes == MutationOutcomes \cup {"okUnparsable"}

ServerErrorText == "No bikes available at this station"

FailureMessageAlwaysFallback(outcome, fallback) == Message(fallback)

\* e.message of what the try block threw on a failed request
FailureMessage(outcome, fallback) ==
    IF outcome = "errorWithMessage" THEN Message(ServerErrorText)
    ELSE IF outcome = "errorNoMessage" THEN Message(fallback)
    ELSE Message("Failed to fetch")

ListAfterPatchedOnFailure(list, outcome, payload) == payload

ListAfterKeepsList(list, outcome, payload) == list

ListAfterDiscardsStale(list, outcome, payload) ==
    IF outcome = "ok" /\ payload = ServerList(server) THEN payload ELSE list

\* try { ...; setUserReservations(data.reservations || []) } catch { console.error }
ListAfter(list, outcome, payload) ==
    IF outcome = "ok" THEN payload ELSE list

(***************************************************************************)
(* Rendering: every action of the page ends in a render, after which the   *)
(* effects whose dependencies changed have run.                            *)
(***************************************************************************)
RenderForm(dateH, tsH, sidH, pdH, stsNew) ==
    LET r == Rendered(sidH, pdH, stsNew, locationState)
    IN  /\ date' = dateH
        /\ timeSlot' = tsH
        /\ stationId' = r.stationId
        /\ predictedDemand' = r.predictedDemand
        /\ price' = calculatePrice(r.predictedDemand, tsH)

RenderEdit(openH, resH, dateH, tsH, sidH, pdH, stsNew) ==
    LET pd == EditRendered(sidH, pdH, openH, stsNew)
    IN  /\ editDialogOpen' = openH
        /\ editingReservation' = resH
        /\ editDate' = dateH
        /\ editTimeSlot' = tsH
        /\ editStationId' = sidH
        /\ editPredictedDemand' = pd
        /\ editPrice' = calculatePrice(pd, tsH)

SameForm == RenderForm(date, timeSlot, stationId, predictedDemand, stations)
SameEdit == RenderEdit(editDialogOpen, editingReservation, editDate, editTimeSlot,
                       editStationId, editPredictedDemand, stations)

(***************************************************************************)
(* Initial states.                                                         *)
(***************************************************************************)
SampleRequest ==
    [date |-> Today, time_slot |-> "Night", station_id |-> "s1",
     predicted_demand |-> "High", user_email |-> "rider@example.com"]

SampleLatest(n, p, st) ==
    Latest(ReserveResponseBody(NewReservation(ResId(n), SampleRequest, p, st)),
           SampleRequest.predicted_demand, SampleRequest.station_id)

\* What the slot can hold when a tab starts
InitialSlots == {NoItem, EmptyText, TruncatedText,
                 JSONStringify(SampleLatest(1, 500, "Confirmed")),
                 JSONStringify(SampleLatest(2, 550, "Pending"))}

StoreInit(raw) ==
    LET h == Hydrate(raw, FALSE)
    IN  /\ storage = raw
        /\ latestReservation = [t \in Tabs |-> h.value]
        /\ ctxValue = [t \in Tabs |-> UseMemo(Null, Null, h.value)]
        /\ storeLog = [t \in Tabs |-> HydrateLog(raw, h, NoWrite)]
        /\ lastWrite = NoWrite

\* ReservationPage after its first render and mount effects
PageInit(u, loc, srv) ==
    LET pre == PrefillEffect(loc, "", "Low")
    IN  /\ user = u
        /\ locationState = loc
        /\ server = srv
        /\ stations = <<>>
        /\ stationsLoading = TRUE
        /\ stationsError = Null
        /\ date = Today
        /\ timeSlot = "Morning"
        /\ stationId = pre.stationId
        /\ predictedDemand = StationEffect(<<>>, pre.stationId, pre.predictedDemand)
        /\ price = calculatePrice(predictedDemand, timeSlot)
        /\ isSubmitting = FALSE
        /\ submitError = Null
        /\ receiptOpen = FALSE
        /\ lastResponse = Null
        /\ userReservations = <<>>
        /\ loadingReservations = HasEmail(u)
        /\ editDialogOpen = FALSE
        /\ editingReservation = Null
        /\ editDate = Today
        /\ editTimeSlot = "Morning"
        /\ editStationId = ""
        /\ editPredictedDemand = "Low"
        /\ editPrice = calculatePrice(editPredictedDemand, editTimeSlot)
        /\ mountFetch = IF HasEmail(u)
                        THEN [pc |-> "awaitList", payload |-> ServerList(srv)]
                        ELSE [pc |-> "idle", payload |-> <<>>]
        /\ createFlow = IdleFlow("none")
        /\ editFlow = IdleFlow("none")
        /\ cancelFlows = [i \in 1..MaxCancels |-> IdleFlow("none")]

EmptyServer == [reservations |-> <<>>, nextId |-> 1]

(***************************************************************************)
(* Station catalog of the page.                                            *)
(***************************************************************************)
StationsOutcomes == {"ok", "notArray", "httpError", "networkError"}

StationsErrorOfIgnoresFormat(outcome) ==
    IF outcome \in {"ok", "notArray"} THEN Null
    ELSE IF outcome = "httpError" THEN Message("Failed to load stations (status 500)")
    ELSE Message("Failed to fetch")

StationsErrorOf(outcome) ==
    IF outcome = "ok" THEN Null
    ELSE IF outcome = "notArray" THEN Message("Invalid stations response format")
    ELSE IF outcome = "httpError" THEN Message("Failed to load stations (status 500)")
    ELSE Message("Failed to fetch")

\* loadStations after its fetch settles
StationsResolve(outcome, catalog) ==
    /\ stationsLoading
    /\ LET sts == IF outcome = "ok" THEN catalog ELSE stations
       IN  /\ stations' = sts
           /\ stationsError' = StationsErrorOf(outcome)
           /\ stationsLoading' = FALSE
           /\ RenderForm(date, timeSlot, stationId, predictedDemand, sts)
           /\ RenderEdit(editDialogOpen, editingReservation, editDate, editTimeSlot,
                         editStationId, editPredictedDemand, sts)
    /\ UNCHANGED <<storeVars, envVars, submitVars, listVars, flowVars>>

(***************************************************************************)
(* The reserve form.                                                       *)
(***************************************************************************)
DateInputs == {"", Today}
SlotInputs == {"Morning", "Night"}

\* <Input type="date" onChange={(e) => setDate(e.target.value)} />
SetDate(d) ==
    /\ d # date
    /\ RenderForm(d, timeSlot, stationId, predictedDemand, stations)
    /\ SameEdit
    /\ UNCHANGED <<storeVars, envVars, catalogVars, submitVars, listVars, flowVars>>

\* <Select value={timeSlot} onValueChange={(v) => setTimeSlot(v as TimeSlot)}>
SetTimeSlot(ts) ==
    /\ ts # timeSlot
    /\ RenderForm(date, ts, stationId, predictedDemand, stations)
    /\ SameEdit
    /\ UNCHANGED <<storeVars, envVars, catalogVars, submitVars, listVars, flowVars>>

\* <Select value={stationId} onValueChange={(v) => setStationId(v)} disabled={stationsLoading}>
SelectStation(sid) ==
    /\ ~stationsLoading
    /\ Find(stations, sid) # Null
    /\ sid # stationId
    /\ RenderForm(date, timeSlot, sid, predictedDemand, stations)
    /\ SameEdit
    /\ UNCHANGED <<storeVars, envVars, catalogVars, submitVars, listVars, flowVars>>

\* Reserve button: disabled={isSubmitting || stationsLoading}
ReserveEnabled == ~isSubmitting /\ ~stationsLoading

\* handleReserve up to its first await
HandleReserve ==
    /\ ReserveEnabled
    /\ LET err == ValidationError(date, timeSlot, stationId)
       IN  IF err # Null
           THEN /\ submitError' = err
                /\ createFlow' = [createFlow EXCEPT !.last = "invalid"]
                /\ UNCHANGED isSubmitting
           ELSE /\ submitError' = Null
                /\ isSubmitting' = TRUE
                /\ createFlow' =
                     [pc |-> "awaitPost",
                      req |-> [date |-> date, time_slot |-> timeSlot,
                               station_id |-> stationId,
                               predicted_demand |-> predictedDemand,
                               user |-> user],
                      payload |-> <<>>, last |-> createFlow.last]
    /\ SameForm /\ SameEdit
    /\ UNCHANGED <<storeVars, envVars, catalogVars, receiptOpen, lastResponse,
                   listVars, mountFetch, editFlow, cancelFlows>>

\* handleReserve from the POST's settling to the next await (or its end)
ReserveResolves(outcome, delta, st, writeFails) ==
    /\ createFlow.pc = "awaitPost"
    /\ LET req == createFlow.req
           created == NewReservation(ResId(server.nextId), req,
                                     ServerPrice(req, delta), st)
           confirmed == IF outcome = "ok" THEN ReserveResponseBody(created)
                        ELSE [k \in {} |-> Null]
           srv == IF outcome = "ok" THEN ServerCreate(server, created) ELSE server
       IN  /\ outcome = "ok" => server.nextId <= MaxReservations
           /\ server' = srv
           /\ IF outcome \in {"ok", "okUnparsable"}
              THEN /\ lastResponse' = confirmed
                   /\ receiptOpen' = TRUE
                   /\ setLatestReservation(PageTab,
                         Latest(confirmed, req.predicted_demand, req.station_id),
                         writeFails)
                   /\ UNCHANGED submitError
                   /\ IF HasEmail(req.user)
                      THEN /\ loadingReservations' = TRUE
                           /\ createFlow' = [createFlow EXCEPT !.pc = "awaitList",
                                                !.payload = ServerList(srv)]
                           /\ UNCHANGED isSubmitting
                      ELSE /\ isSubmitting' = FALSE
                           /\ createFlow' = IdleFlow("notRefreshed")
                           /\ UNCHANGED loadingReservations
              ELSE /\ submitError' = FailureMessage(outcome, "Reservation failed (status 500)")
                   /\ isSubmitting' = FALSE
                   /\ createFlow' = IdleFlow("failed")
                   /\ UNCHANGED <<lastResponse, receiptOpen, storeVars, loadingReservations>>
    /\ SameForm /\ SameEdit
    /\ UNCHANGED <<user, locationState, catalogVars, userReservations,
                   mountFetch, editFlow, cancelFlows>>

CreateRefetchWithoutFinally(outcome) ==
    /\ createFlow.pc = "awaitList"
    /\ userReservations' = ListAfter(userReservations, outcome, createFlow.payload)
    /\ loadingReservations' = FALSE
    /\ isSubmitting' = (outcome # "ok")
    /\ createFlow' = IdleFlow(IF outcome = "ok" THEN "refreshed" ELSE "notRefreshed")
    /\ SameForm /\ SameEdit
    /\ UNCHANGED <<storeVars, envVars, catalogVars, submitError, receiptOpen,
                   lastResponse, mountFetch, editFlow, cancelFlows>>

\* the refetch awaited by handleReserve settles; then finally { setIsSubmitting(false) }
CreateRefetchResolves(outcome) ==
    /\ createFlow.pc = "awaitList"
    /\ userReservations' = ListAfter(userReservations, outcome, createFlow.payload)
    /\ loadingReservations' = FALSE
    /\ isSubmitting' = FALSE
    /\ createFlow' = IdleFlow(IF outcome = "ok" THEN "refreshed" ELSE "notRefreshed")
    /\ SameForm /\ SameEdit
    /\ UNCHANGED <<storeVars, envVars, catalogVars, submitError, receiptOpen,
                   lastResponse, mountFetch, editFlow, cancelFlows>>

\* the fetch started by useEffect(..., [user]) settles
MountFetchResolves(outcome) ==
    /\ mountFetch.pc = "awaitList"
    /\ userReservations' = ListAfter(userReservations, outcome, mountFetch.payload)
    /\ loadingReservations' = FALSE
    /\ mountFetch' = [pc |-> "done", payload |-> <<>>]
    /\ SameForm /\ SameEdit
    /\ UNCHANGED <<storeVars, envVars, catalogVars, submitVars,
                   createFlow, editFlow, cancelFlows>>

\* receipt dialog: Close
CloseReceipt ==
    /\ receiptOpen
    /\ receiptOpen' = FALSE
    /\ SameForm /\ SameEdit
    /\ UNCHANGED <<storeVars, envVars, catalogVars, isSubmitting, submitError,
                   lastResponse, listVars, flowVars>>

(***************************************************************************)
(* Cancel.                                                                 *)
(***************************************************************************)
\* Edit and Cancel are rendered for a listed reservation with status 'Confirmed';
\* the list is replaced by "Loading reservations..." while loadingReservations
ListedAnyStatus(i) ==
    /\ ~loadingReservations
    /\ i \in 1..Len(userReservations)

ListedConfirmed(i) ==
    /\ ~loadingReservations
    /\ i \in 1..Len(userReservations)
    /\ userReservations[i].status = "Confirmed"

FreeCancelSlots == {k \in 1..MaxCancels : cancelFlows[k].pc = "idle"}

\* Cancel button, confirm() accepted: handleCancelReservation up to its await
HandleCancelReservation(i) ==
    /\ ListedConfirmed(i)
    /\ HasEmail(user)
    /\ FreeCancelSlots # {}
    /\ LET k == CHOOSE f \in FreeCancelSlots : \A g \in FreeCancelSlots : f <= g
       IN  cancelFlows' = [cancelFlows EXCEPT ![k] =
              [pc |-> "awaitDelete",
               req |-> [reservation_id |-> userReservations[i].reservation_id],
               payload |-> <<>>, last |-> @.last]]
    /\ UNCHANGED <<storeVars, envVars, catalogVars, formVars, submitVars, listVars,
                   editVars, mountFetch, createFlow, editFlow>>

CancelRefetchesWhateverDelete(k, outcome) ==
    /\ cancelFlows[k].pc = "awaitDelete"
    /\ LET id == cancelFlows[k].req.reservation_id
           srv == IF outcome = "ok" THEN ServerDelete(server, id) ELSE server
       IN  /\ outcome = "ok" => ServerHas(server, id)
           /\ server' = srv
           /\ loadingReservations' = TRUE
           /\ cancelFlows' = [cancelFlows EXCEPT ![k].pc = "awaitList",
                                 ![k].payload = ServerList(srv)]
           /\ SameForm /\ SameEdit
    /\ UNCHANGED <<storeVars, user, locationState, catalogVars, submitVars,
                   userReservations, mountFetch, createFlow, editFlow>>

CancelResolvesClearsSnapshot(k, outcome) ==
    /\ cancelFlows[k].pc = "awaitDelete"
    /\ LET id == cancelFlows[k].req.reservation_id
       IN  IF outcome = "ok"
           THEN /\ ServerHas(server, id)
                /\ server' = ServerDelete(server, id)
                /\ loadingReservations' = TRUE
                /\ cancelFlows' = [cancelFlows EXCEPT ![k].pc = "awaitList",
                                      ![k].payload = ServerList(ServerDelete(server, id))]
                /\ SameForm /\ SameEdit
                /\ setLatestReservation(PageTab, Null, FALSE)
           ELSE /\ cancelFlows' = [cancelFlows EXCEPT ![k] = IdleFlow("failed")]
                /\ UNCHANGED <<server, loadingReservations, formVars, editVars, storeVars>>
    /\ UNCHANGED <<user, locationState, catalogVars, submitVars,
                   userReservations, mountFetch, createFlow, editFlow>>

\* the DELETE settles: on success the refetch is issued, on failure it is logged
CancelResolves(k, outcome) ==
    /\ cancelFlows[k].pc = "awaitDelete"
    /\ LET id == cancelFlows[k].req.reservation_id
       IN  IF outcome = "ok"
           THEN /\ ServerHas(server, id)
                /\ server' = ServerDelete(server, id)
                /\ loadingReservations' = TRUE
                /\ cancelFlows' = [cancelFlows EXCEPT ![k].pc = "awaitList",
                                      ![k].payload = ServerList(ServerDelete(server, id))]
                /\ SameForm /\ SameEdit
           ELSE /\ cancelFlows' = [cancelFlows EXCEPT ![k] = IdleFlow("failed")]
                /\ UNCHANGED <<server, loadingReservations, formVars, editVars>>
    /\ UNCHANGED <<storeVars, user, locationState, catalogVars, submitVars,
                   userReservations, mountFetch, createFlow, editFlow>>

\* the refetch awaited by handleCancelReservation settles
CancelRefetchResolves(k, outcome) ==
    /\ cancelFlows[k].pc = "awaitList"
    /\ userReservations' = ListAfter(userReservations, outcome, cancelFlows[k].payload)
    /\ loadingReservations' = FALSE
    /\ cancelFlows' = [cancelFlows EXCEPT ![k] =
                         IdleFlow(IF outcome = "ok" THEN "refreshed" ELSE "notRefreshed")]
    /\ SameForm /\ SameEdit
    /\ UNCHANGED <<storeVars, envVars, catalogVars, submitVars,
                   mountFetch, createFlow, editFlow>>

(***************************************************************************)
(* Edit.                                                                   *)
(***************************************************************************)
\* Edit button: openEditDialog(reservation)
OpenEditDialog(i) ==
    /\ ListedConfirmed(i)
    /\ LET r == userReservations[i]
       IN  RenderEdit(TRUE, r, r.date, r.time_slot, r.station_id, r.predicted_demand,
                      stations)
    /\ SameForm
    /\ UNCHANGED <<storeVars, envVars, catalogVars, submitVars, listVars, flowVars>>

SetEditDate(d) ==
    /\ editDialogOpen
    /\ d # editDate
    /\ RenderEdit(editDialogOpen, editingReservation, d, editTimeSlot, editStationId,
                  editPredictedDemand, stations)
    /\ SameForm
    /\ UNCHANGED <<storeVars, envVars, catalogVars, submitVars, listVars, flowVars>>

SetEditTimeSlot(ts) ==
    /\ editDialogOpen
    /\ ts # editTimeSlot
    /\ RenderEdit(editDialogOpen, editingReservation, editDate, ts, editStationId,
                  editPredictedDemand, stations)
    /\ SameForm
    /\ UNCHANGED <<storeVars, envVars, catalogVars, submitVars, listVars, flowVars>>

SelectEditStation(sid) ==
    /\ editDialogOpen
    /\ ~stationsLoading
    /\ Find(stations, sid) # Null
    /\ sid # editStationId
    /\ RenderEdit(editDialogOpen, editingReservation, editDate, editTimeSlot, sid,
                  editPredictedDemand, stations)
    /\ SameForm
    /\ UNCHANGED <<storeVars, envVars, catalogVars, submitVars, listVars, flowVars>>

\* dialog footer Cancel: closes, forgets the reservation, clears the error
CancelEditDialog ==
    /\ editDialogOpen
    /\ submitError' = Null
    /\ RenderEdit(FALSE, Null, editDate, editTimeSlot, editStationId,
                  editPredictedDemand, stations)
    /\ SameForm
    /\ UNCHANGED <<storeVars, envVars, catalogVars, isSubmitting, receiptOpen,
                   lastResponse, listVars, flowVars>>

\* <Dialog onOpenChange={setEditDialogOpen}>: Escape or a click outside
DismissEditDialog ==
    /\ editDialogOpen
    /\ RenderEdit(FALSE, editingReservation, editDate, editTimeSlot, editStationId,
                  editPredictedDemand, stations)
    /\ SameForm
    /\ UNCHANGED <<storeVars, envVars, catalogVars, submitVars, listVars, flowVars>>

UpdateEnabledWhileSubmitting == editDialogOpen /\ ~stationsLoading

\* Update button: disabled={isSubmitting || stationsLoading}, inside the open dialog
UpdateEnabled == editDialogOpen /\ ~isSubmitting /\ ~stationsLoading

\* handleEditReservation up to its await
HandleEditReservation ==
    /\ UpdateEnabled
    /\ HasEmail(user) /\ editingReservation # Null
    /\ LET err == ValidationError(editDate, editTimeSlot, editStationId)
       IN  IF err # Null
           THEN /\ submitError' = err
                /\ editFlow' = [editFlow EXCEPT !.last = "invalid"]
                /\ UNCHANGED isSubmitting
           ELSE /\ submitError' = Null
                /\ isSubmitting' = TRUE
                /\ editFlow' =
                     [pc |-> "awaitPut",
                      req |-> [reservation_id |-> editingReservation.reservation_id,
                               user_email |-> user.email, date |-> editDate,
                               time_slot |-> editTimeSlot, station_id |-> editStationId],
                      payload |-> <<>>, last |-> editFlow.last]
    /\ SameForm /\ SameEdit
    /\ UNCHANGED <<storeVars, envVars, catalogVars, receiptOpen, lastResponse,
                   listVars, mountFetch, createFlow, cancelFlows>>

EditDialogClosedWhateverPut(outcome) == [open |-> FALSE, editing |-> Null]

\* the dialog after the PUT: setEditDialogOpen(false), setEditingReservation(null)
\* run on success only; a throw skips them
EditDialogAfterPut(outcome) ==
    IF outcome = "ok" THEN [open |-> FALSE, editing |-> Null]
    ELSE [open |-> editDialogOpen, editing |-> editingReservation]

\* the PUT settles
EditResolves(outcome) ==
    /\ editFlow.pc = "awaitPut"
    /\ LET dialog == EditDialogAfterPut(outcome)
       IN  RenderEdit(dialog.open, dialog.editing, editDate, editTimeSlot,
                      editStationId, editPredictedDemand, stations)
    /\ IF outcome = "ok"
       THEN /\ ServerHas(server, editFlow.req.reservation_id)
            /\ server' = ServerUpdate(server, editFlow.req)
            /\ loadingReservations' = TRUE
            /\ editFlow' = [editFlow EXCEPT !.pc = "awaitList",
                               !.payload = ServerList(ServerUpdate(server, editFlow.req))]
            /\ UNCHANGED <<submitError, isSubmitting>>
       ELSE /\ submitError' = FailureMessage(outcome,
                                 "Failed to update reservation (status 500)")
            /\ isSubmitting' = FALSE
            /\ editFlow' = IdleFlow("failed")
            /\ UNCHANGED <<server, loadingReservations>>
    /\ SameForm
    /\ UNCHANGED <<storeVars, user, locationState, catalogVars, receiptOpen,
                   lastResponse, userReservations, mountFetch, createFlow, cancelFlows>>

\* the refetch awaited by handleEditReservation settles; then finally
EditRefetchResolves(outcome) ==
    /\ editFlow.pc = "awaitList"
    /\ userReservations' = ListAfter(userReservations, outcome, editFlow.payload)
    /\ loadingReservations' = FALSE
    /\ isSubmitting' = FALSE
    /\ editFlow' = IdleFlow(IF outcome = "ok" THEN "refreshed" ELSE "notRefreshed")
    /\ SameForm /\ SameEdit
    /\ UNCHANGED <<storeVars, envVars, catalogVars, submitError, receiptOpen,
                   lastResponse, mountFetch, createFlow, cancelFlows>>

(***************************************************************************)
(* Specifications.  Each takes the handlers of one part of the client and  *)
(* draws their inputs from the sets named in its next-state relation.      *)
(***************************************************************************)
MainCatalog == <<Station("s1", "High"), Station("s2", "Low")>>
FailureOutcomes == {"errorWithMessage", "errorNoMessage", "networkError"}

\* ---- The whole reservation lifecycle: create, list, cancel, edit ----
Init ==
    /\ StoreInit(NoItem)
    /\ \E u \in Users : PageInit(u, MapHandleReserve(MainCatalog[1]), EmptyServer)

Next ==
    \/ \E o \in {"ok", "httpError"} : StationsResolve(o, MainCatalog)
    \/ HandleReserve
    \/ \E st \in ServerStatuses : ReserveResolves("ok", 0, st, FALSE)
    \/ ReserveResolves("errorNoMessage", 0, "Confirmed", FALSE)
    \/ \E o \in ListOutcomes : CreateRefetchResolves(o)
    \/ \E o \in ListOutcomes : MountFetchResolves(o)
    \/ CloseReceipt
    \/ \E i \in 1..MaxReservations : HandleCancelReservation(i)
    \/ \E k \in 1..MaxCancels, o \in {"ok", "errorNoMessage"} : CancelResolves(k, o)
    \/ \E k \in 1..MaxCancels, o \in ListOutcomes : CancelRefetchResolves(k, o)
    \/ \E i \in 1..MaxReservations : OpenEditDialog(i)
    \/ \E d \in DateInputs : SetEditDate(d)
    \/ CancelEditDialog
    \/ HandleEditReservation
    \/ \E o \in {"ok", "errorWithMessage"} : EditResolves(o)
    \/ \E o \in ListOutcomes : EditRefetchResolves(o)

Spec == Init /\ [][Next]_vars

\* ---- Create, list and cancel for a rider with an email ----
InitCancel ==
    /\ StoreInit(NoItem)
    /\ PageInit(Rider, MapHandleReserve(MainCatalog[1]), EmptyServer)

NextCancel ==
    \/ StationsResolve("ok", MainCatalog)
    \/ HandleReserve
    \/ \E st \in ServerStatuses : ReserveResolves("ok", 0, st, FALSE)
    \/ ReserveResolves("networkError", 0, "Confirmed", FALSE)
    \/ \E o \in ListOutcomes : CreateRefetchResolves(o)
    \/ \E o \in ListOutcomes : MountFetchResolves(o)
    \/ \E i \in 1..MaxReservations : HandleCancelReservation(i)
    \/ \E k \in 1..MaxCancels, o \in MutationOutcomes : CancelResolves(k, o)
    \/ \E k \in 1..MaxCancels, o \in ListOutcomes : CancelRefetchResolves(k, o)

SpecCancel == InitCancel /\ [][NextCancel]_vars

\* ---- Create, list and edit for a rider with an email ----
InitEdit ==
    /\ StoreInit(NoItem)
    /\ PageInit(Rider, MapHandleReserve(MainCatalog[1]), EmptyServer)

NextEdit ==
    \/ StationsResolve("ok", MainCatalog)
    \/ HandleReserve
    \/ ReserveResolves("ok", 0, "Confirmed", FALSE)
    \/ CreateRefetchResolves("ok")
    \/ \E o \in ListOutcomes : MountFetchResolves(o)
    \/ \E i \in 1..MaxReservations : OpenEditDialog(i)
    \/ \E d \in DateInputs : SetEditDate(d)
    \/ \E ts \in SlotInputs : SetEditTimeSlot(ts)
    \/ \E sid \in StationIds : SelectEditStation(sid)
    \/ CancelEditDialog
    \/ DismissEditDialog
    \/ HandleEditReservation
    \/ \E o \in MutationOutcomes : EditResolves(o)
    \/ \E o \in ListOutcomes : EditRefetchResolves(o)

SpecEdit == InitEdit /\ [][NextEdit]_vars

\* ---- The reserve form and handleReserve, with every answer of the backend ----
InitCreate ==
    /\ StoreInit(NoItem)
    /\ \E u \in Users : PageInit(u, Null, EmptyServer)

NextCreate ==
    \/ StationsResolve("ok", MainCatalog)
    \/ \E d \in DateInputs : SetDate(d)
    \/ \E sid \in StationIds : SelectStation(sid)
    \/ HandleReserve
    \/ \E delta \in ServerPriceDeltas, st \in ServerStatuses, writeFails \in BOOLEAN :
         ReserveResolves("ok", delta, st, writeFails)
    \/ \E writeFails \in BOOLEAN : ReserveResolves("okUnparsable", 0, "Confirmed", writeFails)
    \/ \E o \in FailureOutcomes : ReserveResolves(o, 0, "Confirmed", FALSE)
    \/ \E o \in ListOutcomes : CreateRefetchResolves(o)
    \/ \E o \in ListOutcomes : MountFetchResolves(o)
    \/ CloseReceipt

SpecCreate == InitCreate /\ [][NextCreate]_vars

\* ---- The handoff from the map, the catalog and the station selection ----
InitHandoff ==
    /\ StoreInit(NoItem)
    /\ \E loc \in LocationStates : PageInit(Rider, loc, EmptyServer)

NextHandoff ==
    \/ \E o \in StationsOutcomes, c \in ServerCatalogs : StationsResolve(o, c)
    \/ \E ts \in SlotInputs : SetTimeSlot(ts)
    \/ \E sid \in StationIds : SelectStation(sid)
    \/ HandleReserve
    \/ ReserveResolves("ok", 0, "Confirmed", FALSE)
    \/ ReserveResolves("networkError", 0, "Confirmed", FALSE)
    \/ \E o \in ListOutcomes : CreateRefetchResolves(o)
    \/ \E o \in ListOutcomes : MountFetchResolves(o)
    \/ CloseReceipt

SpecHandoff == InitHandoff /\ [][NextHandoff]_vars

\* ---- The store alone: two tabs on one durable slot ----
SetArguments == {Null, SampleLatest(1, 500, "Confirmed"), SampleLatest(2, 550, "Pending"),
                 Latest([k \in {} |-> Null], "Low", "s2")}

InitStore ==
    /\ \E raw \in InitialSlots : StoreInit(raw)
    /\ PageInit(Anonymous, Null, EmptyServer)

\* setLatestReservation(r) called by a consumer of the context in tab t
SetLatest(t, r, writeFails) ==
    /\ setLatestReservation(t, r, writeFails)
    /\ UNCHANGED <<envVars, pageVars>>

\* tab t is reloaded
Reload(t, readFails) ==
    /\ Startup(t, readFails)
    /\ UNCHANGED <<envVars, pageVars>>

NextStore ==
    \/ \E t \in Tabs, r \in SetArguments, writeFails \in BOOLEAN : SetLatest(t, r, writeFails)
    \/ \E t \in Tabs, readFails \in BOOLEAN : Reload(t, readFails)

SpecStore == InitStore /\ [][NextStore]_vars

\* ---- Create and update under fair scheduling: every request sent settles ----
InitLive ==
    /\ StoreInit(NoItem)
    /\ \E u \in Users : PageInit(u, MapHandleReserve(MainCatalog[1]), EmptyServer)

SettleOutcomes == {"ok", "errorNoMessage", "networkError"}
ListSettleOutcomes == {"ok", "networkError"}

NextLive ==
    \/ \E o \in {"ok", "httpError"} : StationsResolve(o, MainCatalog)
    \/ \E d \in DateInputs : SetDate(d)
    \/ HandleReserve
    \/ \E o \in SettleOutcomes : ReserveResolves(o, 0, "Confirmed", FALSE)
    \/ \E o \in ListSettleOutcomes : CreateRefetchResolves(o)
    \/ \E o \in ListSettleOutcomes : MountFetchResolves(o)
    \/ \E i \in 1..MaxReservations : OpenEditDialog(i)
    \/ \E d \in DateInputs : SetEditDate(d)
    \/ HandleEditReservation
    \/ \E o \in SettleOutcomes : EditResolves(o)
    \/ \E o \in ListSettleOutcomes : EditRefetchResolves(o)

\* a fetch that was issued resolves or rejects: each await is eventually resumed
FairLive ==
    /\ WF_vars(\E o \in {"ok", "httpError"} : StationsResolve(o, MainCatalog))
    /\ WF_vars(\E o \in SettleOutcomes : ReserveResolves(o, 0, "Confirmed", FALSE))
    /\ WF_vars(\E o \in ListSettleOutcomes : CreateRefetchResolves(o))
    /\ WF_vars(\E o \in ListSettleOutcomes : MountFetchResolves(o))
    /\ WF_vars(\E o \in SettleOutcomes : EditResolves(o))
    /\ WF_vars(\E o \in ListSettleOutcomes : EditRefetchResolves(o))

SpecLive == InitLive /\ [][NextLive]_vars /\ FairLive

\* ---- The three mutations and their list fetches, for a rider with an email ----
InitMutations ==
    /\ StoreInit(NoItem)
    /\ PageInit(Rider, MapHandleReserve(MainCatalog[1]), EmptyServer)

NextMutations ==
    \/ StationsResolve("ok", MainCatalog)
    \/ HandleReserve
    \/ \E st \in ServerStatuses : ReserveResolves("ok", 0, st, FALSE)
    \/ ReserveResolves("errorWithMessage", 0, "Confirmed", FALSE)
    \/ \E o \in ListSettleOutcomes : CreateRefetchResolves(o)
    \/ \E o \in ListSettleOutcomes : MountFetchResolves(o)
    \/ \E i \in 1..MaxReservations : OpenEditDialog(i)
    \/ CancelEditDialog
    \/ HandleEditReservation
    \/ \E o \in {"ok", "networkError"} : EditResolves(o)
    \/ \E o \in ListSettleOutcomes : EditRefetchResolves(o)
    \/ \E i \in 1..MaxReservations : HandleCancelReservation(i)
    \/ \E k \in 1..MaxCancels, o \in {"ok", "errorNoMessage"} : CancelResolves(k, o)
    \/ \E k \in 1..MaxCancels, o \in ListSettleOutcomes : CancelRefetchResolves(k, o)

SpecMutations == InitMutations /\ [][NextMutations]_vars

\* ---- The two price fields ----
InitPrice ==
    /\ StoreInit(NoItem)
    /\ PageInit(Anonymous, Null, EmptyServer)

\* the demand shown changes (station effect), the price memo follows
DemandShown(pd) ==
    /\ pd # predictedDemand
    /\ predictedDemand' = pd
    /\ price' = calculatePrice(pd, timeSlot)
    /\ UNCHANGED <<storeVars, envVars, catalogVars, date, timeSlot, stationId,
                   submitVars, listVars, editVars, flowVars>>

SlotChosen(ts) ==
    /\ ts # timeSlot
    /\ timeSlot' = ts
    /\ price' = calculatePrice(predictedDemand, ts)
    /\ UNCHANGED <<storeVars, envVars, catalogVars, date, predictedDemand, stationId,
                   submitVars, listVars, editVars, flowVars>>

EditDemandShown(pd) ==
    /\ pd # editPredictedDemand
    /\ editPredictedDemand' = pd
    /\ editPrice' = calculatePrice(pd, editTimeSlot)
    /\ UNCHANGED <<storeVars, envVars, catalogVars, formVars, submitVars, listVars,
                   editDialogOpen, editingReservation, editDate, editTimeSlot,
                   editStationId, flowVars>>

EditSlotChosen(ts) ==
    /\ ts # editTimeSlot
    /\ editTimeSlot' = ts
    /\ editPrice' = calculatePrice(editPredictedDemand, ts)
    /\ UNCHANGED <<storeVars, envVars, catalogVars, formVars, submitVars, listVars,
                   editDialogOpen, editingReservation, editDate, editPredictedDemand,
                   editStationId, flowVars>>

NextPrice ==
    \/ \E pd \in DemandLevel : DemandShown(pd)
    \/ \E ts \in TimeSlot : SlotChosen(ts)
    \/ \E pd \in DemandLevel : EditDemandShown(pd)
    \/ \E ts \in TimeSlot : EditSlotChosen(ts)

SpecPrice == InitPrice /\ [][NextPrice]_vars

(***************************************************************************)
(* Properties.                                                             *)
(***************************************************************************)
BasePrice(demand) ==
    CASE demand = "Low" -> 200 [] demand = "Medium" -> 300 [] demand = "High" -> 400

\* C1: for each of the 12 (demand, slot) inputs the price is base(demand), Low 200,
\* Medium 300, High 400, plus 100 exactly when the slot is Night; both price fields
\* of the page (form and edit dialog) show that value.
C1_PriceTable ==
    /\ price = BasePrice(predictedDemand) + (IF timeSlot = "Night" THEN 100 ELSE 0)
    /\ editPrice = BasePrice(editPredictedDemand)
                     + (IF editTimeSlot = "Night" THEN 100 ELSE 0)

C1_Witness ==
    /\ predictedDemand = "High" /\ timeSlot = "Night" /\ price = 500
    /\ editPredictedDemand = "Medium" /\ editTimeSlot = "Evening" /\ editPrice = 300

\* C5: after setLatestReservation(s) in a tab, the state and the context value every
\* consumer of that tab reads are exactly s (Null for "nothing"), whatever was set
\* before and whether or not the storage write failed.
C5_ReadersSeeSet ==
    \A t \in Tabs :
        storeLog[t].op = "set" =>
            /\ latestReservation[t] = storeLog[t].arg
            /\ ctxValue[t] = storeLog[t].arg

C5_Witness ==
    /\ storeLog["t1"].op = "set" /\ storeLog["t1"].threw
    /\ storeLog["t1"].arg = SampleLatest(2, 550, "Pending")
    /\ ctxValue["t1"] = SampleLatest(2, 550, "Pending")
    /\ storeLog["t2"].op = "set" /\ storeLog["t2"].arg = Null
    /\ ctxValue["t2"] = Null

\* What a tab holds right after a reload, and the last set that preceded the reload
Reloaded(t) == storeLog[t].op = "hydrate" /\ storeLog[t].after.tab # "none"

\* C6 as stated: if the last set before a reload was set(s) and its write did not
\* fail, the reload hydrates exactly s; if it was set(nothing), the slot is deleted
\* and the reload hydrates nothing.
C6_ReloadRoundTrip ==
    \A t \in Tabs :
        Reloaded(t) =>
            LET w == storeLog[t].after
            IN  /\ (w.val # Null /\ w.stored) => latestReservation[t] = w.val
                /\ w.val = Null =>
                     (storeLog[t].arg = NoItem /\ latestReservation[t] = Null)

\* C6 amended: the same, provided the startup read does not fail and, for
\* set(nothing), the removal from the slot did not fail; in every case a reload
\* after set(nothing) whose removal succeeded finds the slot deleted.
C6_ReloadRoundTripIfStorageWorks ==
    \A t \in Tabs :
        Reloaded(t) =>
            LET w == storeLog[t].after
            IN  /\ (w.val # Null /\ w.stored /\ ~storeLog[t].threw)
                      => latestReservation[t] = w.val
                /\ (w.val = Null /\ w.stored)
                      => (storeLog[t].arg = NoItem /\ latestReservation[t] = Null)

C6_Witness ==
    /\ Reloaded("t2")
    /\ storeLog["t2"].after = [tab |-> "t1", val |-> SampleLatest(1, 500, "Confirmed"),
                               stored |-> TRUE]
    /\ latestReservation["t2"] = SampleLatest(1, 500, "Confirmed")
    /\ Reloaded("t1") /\ storeLog["t1"].after.val = Null /\ storeLog["t1"].arg = NoItem

\* C7: a startup that finds the slot missing, empty or holding text that does not
\* parse raises nothing and leaves the snapshot, and what consumers read, at nothing.
C7_CorruptSlotIgnored ==
    \A t \in Tabs :
        (storeLog[t].op = "hydrate"
           /\ (storeLog[t].arg = NoItem \/ ~JSONParse(storeLog[t].arg).ok)) =>
            /\ ~storeLog[t].raised
            /\ latestReservation[t] = Null
            /\ ctxValue[t] = Null

C7_Witness ==
    /\ storeLog["t2"].op = "hydrate" /\ storeLog["t2"].arg = TruncatedText
    /\ storeLog["t2"].threw /\ ~storeLog["t2"].raised
    /\ latestReservation["t2"] = Null
    /\ storeLog["t1"].op = "hydrate" /\ storeLog["t1"].arg = NoItem

\* The page's own snapshot
Snapshot == latestReservation[PageTab]

\* requests in flight, by flow
InFlight == <<mountFetch.pc, createFlow.pc, editFlow.pc,
              [k \in 1..MaxCancels |-> cancelFlows[k].pc]>>

\* C2: a click on Reserve while the date, the time slot or the station is unset
\* issues no request (no POST, no list fetch), leaves the backend, the snapshot, the
\* slot and the displayed list as they were, and sets the message naming the first
\* missing field.
C2_InvalidCreateStaysLocal ==
    [][(HandleReserve /\ (date = "" \/ timeSlot = "" \/ stationId = "")) =>
          /\ InFlight' = InFlight
          /\ createFlow'.pc = "idle"
          /\ UNCHANGED <<server, storeVars, userReservations, isSubmitting>>
          /\ submitError' =
               (IF date = "" THEN Message("Please select a date.")
                ELSE IF timeSlot = "" THEN Message("Please select a time slot.")
                ELSE Message("Please select a pickup station."))]_vars

C2_Witness ==
    /\ createFlow.last = "invalid" /\ createFlow.pc = "idle"
    /\ date = Today /\ stationId = ""
    /\ submitError = Message("Please select a pickup station.")
    /\ userReservations = <<>> /\ Snapshot = Null /\ server = EmptyServer

\* handleReserve returns after a response with a success status
CreateFinished ==
    /\ createFlow.pc # "idle"
    /\ createFlow'.pc = "idle"
    /\ createFlow'.last \in {"refreshed", "notRefreshed"}

ResponseHasId == "reservation_id" \in DOMAIN lastResponse

SnapshotHoldsResponseId ==
    /\ ResponseHasId
    /\ Snapshot # Null
    /\ "reservation_id" \in DOMAIN Snapshot
    /\ Snapshot.reservation_id = lastResponse.reservation_id

ListShowsResponse ==
    /\ ResponseHasId
    /\ \E i \in 1..Len(userReservations) :
          userReservations[i].reservation_id = lastResponse.reservation_id

C8_SnapshotStatusConfirmed ==
    \A t \in Tabs :
        latestReservation[t] # Null =>
            /\ "status" \in DOMAIN latestReservation[t]
            /\ latestReservation[t].status = "Confirmed"

\* the POST settles and the backend has created a reservation
CreateAnswered ==
    /\ createFlow.pc = "awaitPost"
    /\ Len(server'.reservations) = Len(server.reservations) + 1

\* C10: when the price the backend returns for a create differs from
\* calculatePrice(predictedDemand, timeSlot) of the form, the snapshot's price and
\* the price of the receipt are the backend's price.
C10_ServerPriceShown ==
    [][CreateAnswered =>
          LET created == server'.reservations[Len(server'.reservations)]
              clientPrice == calculatePrice(createFlow.req.predicted_demand,
                                            createFlow.req.time_slot)
          IN  created.price # clientPrice =>
                /\ receiptOpen'
                /\ lastResponse'.price = created.price
                /\ Snapshot'.price = created.price]_vars

C10_Witness ==
    /\ receiptOpen
    /\ lastResponse # Null /\ ResponseHasId
    /\ lastResponse.price = 450 /\ price = 400
    /\ Snapshot # Null /\ "price" \in DOMAIN Snapshot /\ Snapshot.price = 450
    /\ Len(server.reservations) = 1 /\ server.reservations[1].price = 450

\* C9: with a handoff applied at mount and no new navigation, the station changes
\* only by the rider's own selection and becomes exactly the station selected; once
\* the rider has left the handoff's station no later render brings it back, and the
\* demand shown changes only to the catalog's demand of the selected station.
C9_HandoffOneShot ==
    [][locationState # Null =>
          /\ \A sid \in StationIds : SelectStation(sid) => stationId' = sid
          /\ (\A sid \in StationIds : ~SelectStation(sid)) => stationId' = stationId
          /\ predictedDemand' # predictedDemand =>
               /\ Find(stations', stationId') # Null
               /\ predictedDemand' = Find(stations', stationId').demand_level]_vars

C9_Witness ==
    /\ locationState = MapHandleReserve(MainCatalog[1])
    /\ stationId = "s2" /\ predictedDemand = "Low"
    /\ createFlow.pc = "idle" /\ createFlow.last = "refreshed"
    /\ ResponseHasId /\ lastResponse.station = StationName("s2")

\* the list fetch issued by cancel flow k settles
CancelRefetched(k) ==
    /\ cancelFlows[k].pc = "awaitList"
    /\ cancelFlows'[k].pc = "idle"

Listed(list, id) == \E i \in 1..Len(list) : list[i].reservation_id = id

GenericCreateFailures == {Message("Reservation failed (status 500)"),
                         Message("Failed to fetch")}

\* C11: when the POST of a create fails (non-success status or transport error),
\* submitError is the backend's error text if the response carried one and a generic
\* failure message otherwise, isSubmitting is false again, no list fetch is issued
\* and the snapshot and the slot are unchanged.
C11_CreateFailureReported ==
    [][\A o \in FailureOutcomes :
          ReserveResolves(o, 0, "Confirmed", FALSE) =>
              /\ o = "errorWithMessage" => submitError' = Message(ServerErrorText)
              /\ o # "errorWithMessage" => submitError' \in GenericCreateFailures
              /\ ~isSubmitting'
              /\ createFlow'.pc = "idle"
              /\ mountFetch'.pc = mountFetch.pc
              /\ UNCHANGED <<storeVars, server, userReservations, loadingReservations,
                             lastResponse, receiptOpen>>]_vars

C11_Witness ==
    /\ createFlow.pc = "idle" /\ createFlow.last = "failed"
    /\ submitError = Message(ServerErrorText)
    /\ ~isSubmitting
    /\ Snapshot = Null /\ storage = NoItem /\ lastResponse = Null

\* C12: a click on Update while the edit date, the edit time slot or the edit
\* station is unset issues no PUT and no list fetch, leaves the backend and the list
\* as they were, keeps the dialog open on the same reservation and sets the message
\* naming the first missing field.
C12_InvalidUpdateStaysLocal ==
    [][(HandleEditReservation
          /\ (editDate = "" \/ editTimeSlot = "" \/ editStationId = "")) =>
          /\ InFlight' = InFlight
          /\ editFlow'.pc = "idle"
          /\ UNCHANGED <<server, storeVars, listVars, isSubmitting>>
          /\ editDialogOpen' /\ editingReservation' = editingReservation
          /\ editingReservation' # Null
          /\ submitError' =
               (IF editDate = "" THEN Message("Please select a date.")
                ELSE IF editTimeSlot = "" THEN Message("Please select a time slot.")
                ELSE Message("Please select a pickup station."))]_vars

C12_Witness ==
    /\ editFlow.pc = "idle" /\ editFlow.last = "invalid"
    /\ editDialogOpen /\ editingReservation # Null
    /\ editDate = ""
    /\ submitError = Message("Please select a date.")
    /\ ~isSubmitting
    /\ server.reservations[1].date = Today

\* C13: when the PUT of an update succeeds the dialog is closed, no reservation is
\* being edited and the list fetch is issued; when it fails (non-success status or
\* transport error) the dialog and the reservation being edited are left as they
\* were, submitError is set (the backend's text when the response carried one), and
\* no list fetch is issued.
C13_UpdateOutcome ==
    [][/\ EditResolves("ok") =>
            /\ ~editDialogOpen' /\ editingReservation' = Null
            /\ editFlow'.pc = "awaitList" /\ loadingReservations'
            /\ editFlow'.payload = ServerList(server')
       /\ \A o \in FailureOutcomes :
            EditResolves(o) =>
                /\ editDialogOpen' = editDialogOpen
                /\ editingReservation' = editingReservation
                /\ submitError' # Null
                /\ o = "errorWithMessage" => submitError' = Message(ServerErrorText)
                /\ editFlow'.pc = "idle"
                /\ UNCHANGED <<server, listVars, mountFetch, createFlow, cancelFlows>>
      ]_vars

\* an update that went through (the backend holds Night), then one that failed
C13_Witness ==
    /\ editFlow.pc = "idle" /\ editFlow.last = "failed"
    /\ editDialogOpen /\ editingReservation # Null
    /\ editingReservation.reservation_id = "r1"
    /\ editingReservation.time_slot = "Night" /\ editTimeSlot = "Morning"
    /\ submitError = Message("Failed to update reservation (status 500)")
    /\ server.reservations[1].time_slot = "Night"

ListFetchFailures == {"httpError", "networkError"}

\* C14: without an email no list fetch is ever in flight (none at mount, none after
\* a create) and the list stays empty; a list fetch that fails (non-success status
\* or transport error) leaves the displayed list as it was and sets neither
\* submitError nor stationsError.
C14_ListFetchQuiet ==
    /\ [](~HasEmail(user) =>
            /\ mountFetch.pc = "idle"
            /\ createFlow.pc # "awaitList"
            /\ ~loadingReservations
            /\ userReservations = <<>>)
    /\ [][\A o \in ListFetchFailures :
            (MountFetchResolves(o) \/ CreateRefetchResolves(o)) =>
                /\ userReservations' = userReservations
                /\ UNCHANGED <<submitError, stationsError, receiptOpen>>
                /\ ~loadingReservations']_vars

\* the create's list fetch failed: the backend holds r1, the page still shows nothing
C14_Witness ==
    /\ HasEmail(user)
    /\ createFlow.pc = "idle" /\ createFlow.last = "notRefreshed"
    /\ mountFetch.pc = "done"
    /\ userReservations = <<>> /\ Len(server.reservations) = 1
    /\ submitError = Null /\ stationsError = Null

\* a list fetch of some flow resolves successfully in this step and the displayed
\* list becomes its payload
ListReplacedByFetch ==
    \/ /\ mountFetch.pc = "awaitList" /\ mountFetch'.pc = "done"
       /\ userReservations' = mountFetch.payload
    \/ /\ createFlow.pc = "awaitList" /\ createFlow'.last = "refreshed"
       /\ createFlow'.pc = "idle"
       /\ userReservations' = createFlow.payload
    \/ /\ editFlow.pc = "awaitList" /\ editFlow'.last = "refreshed"
       /\ editFlow'.pc = "idle"
       /\ userReservations' = editFlow.payload
    \/ \E k \in 1..MaxCancels :
          /\ cancelFlows[k].pc = "awaitList" /\ cancelFlows'[k].last = "refreshed"
          /\ cancelFlows'[k].pc = "idle"
          /\ userReservations' = cancelFlows[k].payload

\* C15: the displayed list changes only in a step in which a list fetch resolves
\* successfully, and then to that fetch's payload; the steps of create, update and
\* cancel that send or settle the mutating request leave it alone, and a failed
\* cancel changes nothing of the page, the store or the backend.
C15_ListOnlyFromFetch ==
    [][/\ userReservations' # userReservations => ListReplacedByFetch
       /\ (HandleReserve \/ HandleEditReservation
             \/ (createFlow.pc = "awaitPost" /\ createFlow'.pc # "awaitPost")
             \/ (editFlow.pc = "awaitPut" /\ editFlow'.pc # "awaitPut")
             \/ \E k \in 1..MaxCancels :
                   cancelFlows[k].pc = "awaitDelete" /\ cancelFlows'[k].pc # "awaitDelete")
            => userReservations' = userReservations
       /\ \A k \in 1..MaxCancels :
            (cancelFlows[k].pc = "awaitDelete" /\ cancelFlows'[k].last = "failed"
               /\ cancelFlows'[k].pc = "idle")
            => UNCHANGED <<storeVars, envVars, catalogVars, formVars, submitVars,
                           listVars, editVars, mountFetch, createFlow, editFlow>>
      ]_vars

\* a cancel failed while the reservation is listed; the list came from a fetch
C15_Witness ==
    /\ cancelFlows[1].pc = "idle" /\ cancelFlows[1].last = "failed"
    /\ Len(userReservations) = 1
    /\ userReservations = ServerList(server)
    /\ createFlow.last = "refreshed"
    /\ editFlow.last = "refreshed"

\* C16: when the catalog load succeeds the held station list becomes exactly the
\* fetched list and no error is held; on a non-success response, a payload that is
\* not an array or a transport error the page holds an error message and the
\* station list it held before; in both cases loading ends.
C16_CatalogLoad ==
    [][\A c \in ServerCatalogs :
          /\ StationsResolve("ok", c) =>
                (stations' = c /\ stationsError' = Null /\ ~stationsLoading')
          /\ \A o \in StationsOutcomes \ {"ok"} :
                StationsResolve(o, c) =>
                    /\ stations' = stations
                    /\ stationsError' # Null
                    /\ o = "notArray" =>
                         stationsError' = Message("Invalid stations response format")
                    /\ o = "httpError" =>
                         stationsError' = Message("Failed to load stations (status 500)")
                    /\ ~stationsLoading']_vars

C16_Witness ==
    /\ ~stationsLoading
    /\ stationsError = Message("Invalid stations response format")
    /\ stations = <<>>
    /\ locationState # Null /\ stationId = locationState.station_id

\* C17: when setItem or removeItem throws during setLatestReservation(r), nothing
\* is raised, the in-memory snapshot and what consumers of that tab read become r,
\* and the slot keeps the text it held.
C17_StorageFailureSwallowed ==
    [][\A t \in Tabs, r \in SetArguments :
          SetLatest(t, r, TRUE) =>
              /\ latestReservation'[t] = r
              /\ ctxValue'[t] = r
              /\ storage' = storage
              /\ ~storeLog'[t].raised /\ storeLog'[t].threw]_vars

\* tab t1 holds a new snapshot in memory while the slot still holds the older one
C17_Witness ==
    /\ storeLog["t1"].op = "set" /\ storeLog["t1"].threw /\ ~storeLog["t1"].raised
    /\ latestReservation["t1"] = SampleLatest(2, 550, "Pending")
    /\ ctxValue["t1"] = SampleLatest(2, 550, "Pending")
    /\ storage = JSONStringify(SampleLatest(1, 500, "Confirmed"))

\* C18: when the DELETE of a cancel fails (non-success status or transport error),
\* the page shows the rider an error: the backend's text if the response carried
\* one, a generic message otherwise.
C18_CancelFailureReported ==
    [][\A k \in 1..MaxCancels, o \in FailureOutcomes :
          CancelResolves(k, o) =>
              /\ submitError' # Null
              /\ o = "errorWithMessage" => submitError' = Message(ServerErrorText)]_vars

\* C19: a flow starts waiting for its list fetch only in the step in which its own
\* mutating request (POST, PUT, DELETE) settles successfully; a mutating request
\* that fails ends its flow without a list fetch, and sending the request issues
\* none.
C19_RefetchAfterMutation ==
    [][/\ (createFlow.pc # "awaitList" /\ createFlow'.pc = "awaitList") =>
             /\ createFlow.pc = "awaitPost"
             /\ \E st \in ServerStatuses : ReserveResolves("ok", 0, st, FALSE)
             /\ createFlow'.payload = ServerList(server')
       /\ (editFlow.pc # "awaitList" /\ editFlow'.pc = "awaitList") =>
             /\ editFlow.pc = "awaitPut"
             /\ EditResolves("ok")
             /\ editFlow'.payload = ServerList(server')
       /\ \A k \in 1..MaxCancels :
             /\ (cancelFlows[k].pc # "awaitList" /\ cancelFlows'[k].pc = "awaitList") =>
                   /\ cancelFlows[k].pc = "awaitDelete"
                   /\ CancelResolves(k, "ok")
                   /\ cancelFlows'[k].payload = ServerList(server')
             /\ \A o \in FailureOutcomes :
                   CancelResolves(k, o) =>
                       (cancelFlows'[k].pc = "idle" /\ UNCHANGED loadingReservations)
       /\ \A o \in FailureOutcomes :
             /\ EditResolves(o) => (editFlow'.pc = "idle" /\ UNCHANGED loadingReservations)
             /\ ReserveResolves(o, 0, "Confirmed", FALSE) =>
                   (createFlow'.pc = "idle" /\ UNCHANGED loadingReservations)
      ]_vars

\* a cancel waits for its list fetch after its DELETE went through; an update
\* failed and a create was refreshed before
C19_Witness ==
    /\ cancelFlows[1].pc = "awaitList"
    /\ ~ServerHas(server, cancelFlows[1].req.reservation_id)
    /\ cancelFlows[1].payload = <<>>
    /\ Len(userReservations) = 1
    /\ editFlow.pc = "idle" /\ editFlow.last = "failed"
    /\ createFlow.pc = "idle" /\ createFlow.last = "refreshed"

AllFetchesSettled ==
    /\ mountFetch.pc # "awaitList" /\ createFlow.pc = "idle" /\ editFlow.pc = "idle"
    /\ \A k \in 1..MaxCancels : cancelFlows[k].pc = "idle"

\* C20: whichever list fetch resolves successfully, the displayed list becomes its
\* payload, whatever other fetches are in flight or have resolved and whether or
\* not the payload is still what the backend holds: of overlapping fetches the one
\* that resolves last decides the list, a stale one included.
C20_LastResolvedWins ==
    [][/\ MountFetchResolves("ok") => userReservations' = mountFetch.payload
       /\ CreateRefetchResolves("ok") => userReservations' = createFlow.payload
       /\ EditRefetchResolves("ok") => userReservations' = editFlow.payload
       /\ \A k \in 1..MaxCancels :
             CancelRefetchResolves(k, "ok") => userReservations' = cancelFlows[k].payload
      ]_vars

\* the fetch of an update resolved after the fetch of a later cancel: every fetch has
\* settled and the page lists a reservation the backend no longer holds
C20_Witness ==
    /\ AllFetchesSettled
    /\ editFlow.last = "refreshed" /\ cancelFlows[1].last = "refreshed"
    /\ Listed(userReservations, "r1")
    /\ ~ServerHas(server, "r1")

\* C21: with a handoff applied at mount, selecting another station of the catalog
\* makes it the selected station and sets the demand shown, and the price computed
\* from it, to that station's demand level in the held catalog, whatever demand the
\* handoff carried.
C21_SelectRederivesDemand ==
    [][locationState # Null =>
          \A sid \in StationIds :
              SelectStation(sid) =>
                  /\ stationId' = sid
                  /\ predictedDemand' = Find(stations, sid).demand_level
                  /\ price' = calculatePrice(Find(stations, sid).demand_level, timeSlot)
      ]_vars

\* the map handed over s1 at Medium; the catalog loaded since holds s1 at High and s2
\* at Low, and the rider has moved to s2
C21_Witness ==
    /\ locationState = MapHandleReserve(Station("s1", "Medium"))
    /\ stations = MainCatalog
    /\ stationId = "s2" /\ predictedDemand = "Low" /\ price = 200

\* C22: every create or update attempt comes to an end with isSubmitting false: a
\* click that fails validation never sets it, and a request that was sent is
\* followed, whatever its answer and the answer of its list fetch, by a state in
\* which the flow has ended and isSubmitting is false; and whenever isSubmitting is
\* false and the catalog load has ended, Reserve can be clicked again, and so can
\* Update while the dialog is open on a reservation of a rider with an email.
C22_NoFailureTerminal ==
    /\ (createFlow.pc # "idle") ~> (createFlow.pc = "idle" /\ ~isSubmitting)
    /\ (editFlow.pc # "idle") ~> (editFlow.pc = "idle" /\ ~isSubmitting)
    /\ isSubmitting ~> ~isSubmitting
    /\ []((createFlow.last = "invalid" \/ editFlow.last = "invalid")
            /\ createFlow.pc = "idle" /\ editFlow.pc = "idle" => ~isSubmitting)
    /\ []((~isSubmitting /\ ~stationsLoading) => ENABLED HandleReserve)
    /\ []((~isSubmitting /\ ~stationsLoading /\ editDialogOpen
             /\ editingReservation # Null /\ HasEmail(user))
            => ENABLED HandleEditReservation)

\* an update failed after a create went through: the dialog is still open and
\* nothing is being submitted
C22_Witness ==
    /\ createFlow.pc = "idle" /\ createFlow.last = "refreshed"
    /\ editFlow.pc = "idle" /\ editFlow.last = "failed"
    /\ submitError = Message("Failed to fetch")
    /\ ~isSubmitting /\ ~stationsLoading
    /\ editDialogOpen /\ editingReservation # Null

\* the POST of a create settles with a success status
CreateSucceeds ==
    \E st \in ServerStatuses, delta \in ServerPriceDeltas, writeFails \in BOOLEAN :
        \/ ReserveResolves("ok", delta, st, writeFails)
        \/ ReserveResolves("okUnparsable", 0, "Confirmed", writeFails)

\* setLatestReservation called by another consumer of the context
ExplicitSet ==
    \E t \in Tabs, r \in SetArguments, writeFails \in BOOLEAN : SetLatest(t, r, writeFails)

\* C23: the in-memory snapshot, what consumers read and the durable slot change only
\* in the step in which a create is answered with a success status, and then to the
\* confirmation just received, or by an explicit set; a failed create, every step of
\* an update, every step of a cancel (of the reservation the snapshot describes
\* included) and every list fetch leave all three as they were.
C23_SnapshotFrame ==
    [][/\ (latestReservation' # latestReservation \/ ctxValue' # ctxValue
             \/ storage' # storage) =>
             /\ CreateSucceeds \/ ExplicitSet
             /\ ~(\/ \E o \in FailureOutcomes : ReserveResolves(o, 0, "Confirmed", FALSE)
                  \/ HandleReserve \/ HandleEditReservation
                  \/ \E o \in MutationOutcomes : EditResolves(o)
                  \/ \E i \in 1..MaxReservations :
                        OpenEditDialog(i) \/ HandleCancelReservation(i)
                  \/ \E k \in 1..MaxCancels, o \in MutationOutcomes : CancelResolves(k, o)
                  \/ \E o \in ListOutcomes :
                        \/ MountFetchResolves(o) \/ CreateRefetchResolves(o)
                        \/ EditRefetchResolves(o)
                        \/ \E k \in 1..MaxCancels : CancelRefetchResolves(k, o))
       /\ (createFlow.pc = "awaitPost" /\ createFlow'.pc # "awaitPost"
             /\ createFlow'.last # "failed") =>
             /\ CreateSucceeds
             /\ Snapshot' # Null
             /\ ResponseHasId' => Snapshot'.reservation_id = lastResponse'.reservation_id
             /\ storage' = JSONStringify(Snapshot') \/ (lastWrite'.stored = FALSE
                                                        /\ storage' = storage)
      ]_vars

\* the reservation the snapshot describes was updated and then cancelled: the backend
\* and the refreshed list no longer hold it, the snapshot and the slot still do
C23_Witness ==
    /\ Snapshot # Null /\ Snapshot.reservation_id = "r1"
    /\ storage = JSONStringify(Snapshot)
    /\ editFlow.pc = "idle" /\ editFlow.last = "refreshed"
    /\ cancelFlows[1].pc = "idle" /\ cancelFlows[1].last = "refreshed"
    /\ ~ServerHas(server, "r1") /\ userReservations = <<>>
    /\ submitError = Message(ServerErrorText)

\* the text a successful write of r leaves in the slot
SlotOf(r) == IF r = Null THEN NoItem ELSE JSONStringify(r)

\* C24: with two tabs on one slot, a set whose write succeeds leaves in the slot the
\* text of its own argument whatever the other tab wrote before, so the slot holds
\* the value of the last successful set; a set in one tab changes neither the
\* in-memory snapshot of the other tab nor what its consumers read, and the other tab
\* takes the slot's value only when it reloads.
C24_LastWriteWins ==
    /\ []((lastWrite.tab # "none" /\ lastWrite.stored) => storage = SlotOf(lastWrite.val))
    /\ [][/\ \A t \in Tabs, r \in SetArguments, writeFails \in BOOLEAN :
               SetLatest(t, r, writeFails) =>
                   /\ ~writeFails => storage' = SlotOf(r)
                   /\ \A u \in Tabs \ {t} :
                         /\ latestReservation'[u] = latestReservation[u]
                         /\ ctxValue'[u] = ctxValue[u]
          /\ \A u \in Tabs :
               (latestReservation'[u] # latestReservation[u]) =>
                   \/ \E r \in SetArguments, writeFails \in BOOLEAN : SetLatest(u, r, writeFails)
                   \/ \E readFails \in BOOLEAN : Reload(u, readFails)
          /\ \A u \in Tabs :
               (Reload(u, FALSE) /\ RawTruthy(storage) /\ JSONParse(storage).ok) =>
                   latestReservation'[u] = JSONParse(storage).value]_vars

\* both tabs have called set, t1 first and t2 last: the slot holds t2's value and t1
\* still holds its own
C24_Witness ==
    /\ storeLog["t1"].op = "set" /\ ~storeLog["t1"].threw
    /\ storeLog["t2"].op = "set" /\ ~storeLog["t2"].threw
    /\ lastWrite.tab = "t2" /\ lastWrite.stored
    /\ latestReservation["t1"] = SampleLatest(1, 500, "Confirmed")
    /\ latestReservation["t2"] = SampleLatest(2, 550, "Pending")
    /\ storage = JSONStringify(SampleLatest(2, 550, "Pending"))

\* the list shows a reservation with this id and status Confirmed
ShownConfirmed(id) ==
    /\ ~loadingReservations
    /\ \E i \in 1..Len(userReservations) :
          /\ userReservations[i].reservation_id = id
          /\ userReservations[i].status = "Confirmed"

\* C25: the edit dialog is opened, and a DELETE is sent, only for a reservation the
\* list shows with status Confirmed in that very step; the reservation being edited
\* changes only by opening the dialog or by being forgotten, so a PUT, which is sent
\* for the reservation being edited, is sent for one that was shown Confirmed when
\* its edit started.
C25_OnlyConfirmedMutated ==
    /\ [](editingReservation # Null => editingReservation.status = "Confirmed")
    /\ [][/\ \A i \in 1..MaxReservations :
               (OpenEditDialog(i) \/ HandleCancelReservation(i)) =>
                   ShownConfirmed(userReservations[i].reservation_id)
          /\ \A i \in 1..MaxReservations :
               OpenEditDialog(i) => editingReservation' = userReservations[i]
          /\ (editingReservation' # editingReservation /\ editingReservation' # Null) =>
               \E i \in 1..MaxReservations : OpenEditDialog(i)
          /\ (editFlow.pc # "awaitPut" /\ editFlow'.pc = "awaitPut") =>
               /\ editingReservation # Null
               /\ editFlow'.req.reservation_id = editingReservation.reservation_id
          /\ \A k \in 1..MaxCancels :
               (cancelFlows[k].pc # "awaitDelete" /\ cancelFlows'[k].pc = "awaitDelete") =>
                   ShownConfirmed(cancelFlows'[k].req.reservation_id)]_vars

\* a DELETE and a PUT are in flight for r1, which the list shows as Confirmed
C25_Witness ==
    /\ editFlow.pc = "awaitPut" /\ editFlow.req.reservation_id = "r1"
    /\ cancelFlows[1].pc = "awaitDelete" /\ cancelFlows[1].req.reservation_id = "r1"
    /\ Len(userReservations) = 1 /\ userReservations[1].status = "Confirmed"
    /\ server.reservations[1].status = "Confirmed"

\* a create or an update has sent its request and has not finished
CreateRunning == createFlow.pc # "idle"
UpdateRunning == editFlow.pc # "idle"

\* C26: a create and an update are never in flight together; isSubmitting is true
\* from the sending of a create's or an update's request until the flow has finished,
\* its list fetch included; while it is true neither a click on Reserve nor a click
\* on Update has any effect, and a request is sent only from a state in which no
\* create and no update is running.
C26_OneSubmissionAtATime ==
    /\ [](~(CreateRunning /\ UpdateRunning))
    /\ []((CreateRunning \/ UpdateRunning) => isSubmitting)
    /\ [](isSubmitting => (~ENABLED HandleReserve /\ ~ENABLED HandleEditReservation))
    /\ [][((~CreateRunning /\ CreateRunning') \/ (~UpdateRunning /\ UpdateRunning')) =>
             /\ ~isSubmitting /\ isSubmitting'
             /\ ~CreateRunning /\ ~UpdateRunning
             /\ ~(CreateRunning' /\ UpdateRunning')]_vars

\* an update waits for its list fetch after an earlier create: the dialog is closed
\* and the Reserve button is still disabled
C26_Witness ==
    /\ editFlow.pc = "awaitList" /\ isSubmitting
    /\ ~editDialogOpen /\ ~stationsLoading
    /\ createFlow.pc = "idle" /\ createFlow.last = "refreshed"
    /\ Len(userReservations) = 1

\* C27: after every render and its effects, if the held catalog contains the
\* selected station the demand shown is that station's demand level in the catalog;
\* so the predicted_demand a create sends for a catalogued station is the catalog's
\* level, neither the level the handoff carried nor the initial "Low".
C27_DemandFollowsCatalog ==
    /\ [](Find(stations, stationId) # Null =>
            predictedDemand = Find(stations, stationId).demand_level)
    /\ [][(createFlow.pc # "awaitPost" /\ createFlow'.pc = "awaitPost"
             /\ Find(stations, createFlow'.req.station_id) # Null) =>
                createFlow'.req.predicted_demand =
                    Find(stations, createFlow'.req.station_id).demand_level]_vars

\* the map handed over s1 at High, the catalog loaded since holds s1 at Medium, and
\* the create in flight was sent with Medium
C27_Witness ==
    /\ locationState = MapHandleReserve(Station("s1", "High"))
    /\ stations = <<Station("s1", "Medium")>>
    /\ stationId = "s1" /\ predictedDemand = "Medium"
    /\ createFlow.pc = "awaitPost"
    /\ createFlow.req.station_id = "s1" /\ createFlow.req.predicted_demand = "Medium"

\* C28: when the POST of a create is answered with a success status, the station_id
\* and the predicted_demand of the snapshot written in that step are those of the
\* request that was sent, whatever the form shows by then; they are also those of
\* the reservation the backend created.
C28_SnapshotKeepsRequest ==
    [][ReserveResolves("ok", 0, "Confirmed", FALSE) =>
          /\ Snapshot'.station_id = createFlow.req.station_id
          /\ Snapshot'.predicted_demand = createFlow.req.predicted_demand
          /\ LET created == server'.reservations[Len(server'.reservations)]
             IN  /\ Snapshot'.station_id = created.station_id
                 /\ Snapshot'.predicted_demand = created.predicted_demand
                 /\ Snapshot'.reservation_id = created.reservation_id]_vars

\* the rider moved from s1 to s2 after sending the create: the snapshot describes s1
\* at High, the form shows s2 at Low
C28_Witness ==
    /\ createFlow.pc = "awaitList"
    /\ Snapshot # Null /\ Snapshot.station_id = "s1" /\ Snapshot.predicted_demand = "High"
    /\ stationId = "s2" /\ predictedDemand = "Low"
    /\ server.reservations[1].station_id = "s1"
    /\ lastResponse.station = StationName("s1")

\* the list fetches in flight, by the flow that issued them
ListFetchesInFlight ==
    {f \in {"mount", "create", "edit"} :
        \/ f = "mount" /\ mountFetch.pc = "awaitList"
        \/ f = "create" /\ createFlow.pc = "awaitList"
        \/ f = "edit" /\ editFlow.pc = "awaitList"}
      \cup {"cancel" : k \in {j \in 1..MaxCancels : cancelFlows[j].pc = "awaitList"}}

\* C29: loadingReservations is true in every state in which a list fetch is in
\* flight, so of two overlapping list fetches the first to resolve leaves it true.
C29_LoadingWhileFetching ==
    ListFetchesInFlight # {} => loadingReservations

\* C30: a snapshot written by a create has a defined reservation_id, price and
\* status, also when the response had a success status and a body that could not be
\* parsed.
C30_SnapshotFieldsDefined ==
    (Snapshot # Null /\ lastWrite.tab = PageTab) =>
        {"reservation_id", "price", "status"} \subseteq DOMAIN Snapshot

====
